---------------------------- MODULE Spec2Model ----------------------------
(***************************************************************************)
(* Model of the chunking pipeline of src/pdf_to_rag.py: chunk_text (the    *)
(* segmentation loop), extract_rag_chunks (the per-item walk) and main     *)
(* (the --include-tables path and the save).                               *)
(*                                                                         *)
(* A text is a sequence of one-character strings over Chars.  Python's     *)
(* indexing, slicing and str.strip are modelled by what they do, negative  *)
(* indices included.                                                       *)
(***************************************************************************)
EXTENDS Integers, Sequences, FiniteSets, TLC

\* ------------------------------------------------------------------ bounds
MaxLen == 4
MaxSize == 3
MaxChunks == 6
MaxDescent == 4
MaxItems == 2
MaxDocLen == 3
MaxPipeSize == 2
MaxData == 2
MaxDocs == 4
MaxBatch == 2
MaxStored == 3
MaxObjects == 2

\* ------------------------------------------------------- program constants
LOOKBACK == 100
DEFAULT_CHUNK_SIZE == 1000
DEFAULT_OVERLAP == 200
BATCH_SIZE == 100
DEFAULT_N_RESULTS == 5
MAX_RESULTS == 50
SubQueryResults == 2

\* --------------------------------------------------------------- characters
\* "a" stands for any character that is neither whitespace nor a sentence
\* terminator, "." for '.', '!' and '?', " " for whitespace that is not a
\* newline; "\n" is both a sentence terminator and whitespace.
Chars == {"a", ".", " ", "\n"}
SentenceEnd == {".", "\n"}
Whitespace == {" ", "\n"}

Max(a, b) == IF a >= b THEN a ELSE b
Min(a, b) == IF a <= b THEN a ELSE b

\* ------------------------------------------------------------ Python strings
\* text[i] is defined for -len <= i < len; anything else raises IndexError.
PyIndexOK(text, i) == -Len(text) <= i /\ i < Len(text)
PyAt(text, i) == text[(IF i < 0 THEN i + Len(text) ELSE i) + 1]

\* A slice bound: negative counts from the end, then clamped into 0..len.
PyBound(text, k) == IF k < 0 THEN Max(k + Len(text), 0) ELSE Min(k, Len(text))
\* text[a:b]
PySlice(text, a, b) == SubSeq(text, PyBound(text, a) + 1, PyBound(text, b))

\* s.strip(): leading and trailing whitespace removed.
Strip(s) ==
  LET keep == {i \in 1..Len(s) : s[i] \notin Whitespace}
  IN  IF keep = {} THEN <<>>
      ELSE LET lo == CHOOSE i \in keep : \A j \in keep : i <= j
               hi == CHOOSE i \in keep : \A j \in keep : j <= i
           IN  SubSeq(s, lo, hi)

\* ---------------------------------------------------------------- chunk_text
\* The indices the inner for loop visits: range(end, max(start + chunk_size
\* - 100, start), -1), i.e. end, end-1, ..., down to but excluding the bound.
ScanLow(start, cs) == Max(start + cs - LOOKBACK, start)
ScanRange(start, cs) == (ScanLow(start, cs) + 1)..(start + cs)

\* The indices of the scan that hold a sentence terminator.
ScanHits(text, start, cs) ==
  {i \in ScanRange(start, cs) : PyIndexOK(text, i) /\ PyAt(text, i) \in SentenceEnd}

\* The scan runs only when start + chunk_size < len(text).
Scans(text, start, cs) == start + cs < Len(text)

\* The scan goes downward and stops at the first terminator; it raises
\* IndexError when it reaches an index below -len before finding one.
ScanRaises(text, start, cs) ==
  /\ Scans(text, start, cs)
  /\ ScanHits(text, start, cs) = {}
  /\ \E i \in ScanRange(start, cs) : ~PyIndexOK(text, i)

\* The value of end after the boundary search of one iteration.
Boundary(text, start, cs) ==
  IF Scans(text, start, cs) /\ ScanHits(text, start, cs) # {}
  THEN (CHOOSE i \in ScanHits(text, start, cs) :
          \A j \in ScanHits(text, start, cs) : j <= i) + 1
  ELSE start + cs

\* chunks.append(text[start:end].strip())
Fragment(text, start, end) == Strip(PySlice(text, start, end))

\* Mutants of the cursor update: the overlap added instead of subtracted, and
\* the overlap forgotten.
NextStart_Skip(end, ov) == end + ov
NextStart_NoOverlap(end, ov) == end

\* start = end - overlap
NextStart(end, ov) == end - ov

\* chunk_text as a function of its arguments, for its callers.  The loop is
\* deterministic in the cursor, so a cursor value that comes back means the
\* loop never ends: status is "returned" (with the list), "raised"
\* (IndexError) or "diverges".
RECURSIVE ChunkLoop(_, _, _, _, _, _)
ChunkLoop(t, cs, ov, s, acc, seen) ==
  IF s \in seen THEN [status |-> "diverges", chunks |-> acc]
  ELSE IF ScanRaises(t, s, cs) THEN [status |-> "raised", chunks |-> acc]
  ELSE LET end == Boundary(t, s, cs)
           nxt == NextStart(end, ov)
           acc2 == Append(acc, Fragment(t, s, end))
       IN  IF nxt >= Len(t)
           THEN [status |-> "returned", chunks |-> acc2]
           ELSE ChunkLoop(t, cs, ov, nxt, acc2, seen \cup {s})

chunk_text(t, cs, ov) ==
  IF Len(t) <= cs THEN [status |-> "returned", chunks |-> <<t>>]
  ELSE ChunkLoop(t, cs, ov, 0, <<>>, {})

\* ------------------------------------------------------------ Python values
\* A chunk id is an int (the counter of extract_rag_chunks) or the string
\* f"table_{table_id}"; both are kept as (type, prefix, number).
IntId(n) == [type |-> "int", prefix |-> "", n |-> n]
TableIdStr(k) == [type |-> "str", prefix |-> "table_", n |-> k]

\* page_num: None, or the page_no of the first provenance entry.
NoPage == [some |-> FALSE, n |-> 0]
PageNo(n) == [some |-> TRUE, n |-> n]

\* Path(pdf_path).name
SOURCE == "doc.pdf"

\* ChromaDBConfig.TABLE_CONTENT_TYPES
TABLE_CONTENT_TYPES == {"table", "document_index"}

\* -------------------------------------------------------- extract_rag_chunks
\* if not item_text or not item_text.strip(): continue
Blank(content) == Strip(content) = <<>>

\* if len(item_text) > chunk_size and content_type != 'table'
Splits(item, cs) == Len(item.content) > cs /\ item.label # "table"

\* Mutant of the fragment index: enumerate counted from 1.
FragIndex_OneBased(i) == i

\* enumerate(text_chunks) counts from 0; sequences here count from 1.
FragIndex(i) == i - 1

\* Mutant of the id counter: the counter is not advanced per fragment.
NextId_Stuck(id, i) == id + 1

\* chunk_id += 1, once per appended chunk: the id of the i-th chunk appended
\* since the counter was id.
NextId(id, i) == id + i

\* The dictionary appended for fragment i (1-based) of a split item.
PartialChunk(id, item, frags, i) ==
  [chunk_id |-> IntId(NextId(id, i)),
   text     |-> frags[i],
   metadata |-> [source       |-> SOURCE,
                 content_type |-> item.label,
                 page         |-> item.page,
                 chunk_index  |-> FragIndex(i),
                 total_chunks |-> Len(frags),
                 is_partial   |-> TRUE]]

\* The dictionary appended for an item kept as a single chunk.
WholeChunk(id, item) ==
  [chunk_id |-> IntId(NextId(id, 1)),
   text     |-> Strip(item.content),
   metadata |-> [source       |-> SOURCE,
                 content_type |-> item.label,
                 page         |-> item.page,
                 chunk_index  |-> 0,
                 total_chunks |-> 1,
                 is_partial   |-> FALSE]]

\* ---------------------------------------------------- extract_tables_for_rag
\* The dictionary appended for the table_id-th item labelled 'table'; its
\* text is the markdown export as it comes, not stripped.
TableChunk(table_id, item) ==
  [chunk_id |-> TableIdStr(table_id),
   text     |-> item.content,
   metadata |-> [source       |-> SOURCE,
                 content_type |-> "table",
                 page         |-> item.page,
                 table_id     |-> table_id]]

RECURSIVE TablesFrom(_, _, _)
TablesFrom(d, k, table_id) ==
  IF k > Len(d) THEN <<>>
  ELSE IF d[k].label = "table"
       THEN <<TableChunk(table_id + 1, d[k])>> \o TablesFrom(d, k + 1, table_id + 1)
       ELSE TablesFrom(d, k + 1, table_id)

extract_tables_for_rag(d) == TablesFrom(d, 1, 0)

\* ------------------------------------------------------------------- state
VARIABLES
  text,        \* chunk_text: the argument text
  chunk_size,  \* chunk_text / main: chunk_size
  overlap,     \* chunk_text / main: overlap
  pc,          \* chunk_text: "call", "while", "body", "returned", "raised"
  start,       \* chunk_text: the cursor
  chunks,      \* chunk_text: the list being built (the result once returned)
  cuts,        \* history: the <<start, end>> of every append, in order
  doc,         \* the items doc.iterate_items() yields: [content, label, page]
  include_tables, \* main: --include-tables
  mpc,         \* main: "extract", "tables", "save", "done", "hung", "failed"
  item_no,     \* extract_rag_chunks: the position of the for loop in doc
  chunk_id,    \* extract_rag_chunks: the id counter
  rag_chunks,  \* extract_rag_chunks / main: the chunk list
  output,      \* the file save_rag_output writes: <<>> until written
  db,          \* the persistent client: collection name -> set of entries
  collection_name, \* --collection of either script: "" when not given
  data,        \* ingest_to_chromadb: data['chunks'] of the loaded file
  reset,       \* ingest_to_chromadb: --reset
  include_types, \* ingest_to_chromadb: --include-types, {} when not given
  exclude_types, \* ingest_to_chromadb: --exclude-types, {} when not given
  batch_size,  \* ingest_to_chromadb: --batch-size, 0 when not given
  ids,         \* ingest_to_chromadb: the prepared ids
  documents,   \* ingest_to_chromadb: the prepared documents
  metadatas,   \* ingest_to_chromadb: the prepared metadata records
  batch_start, \* ingest_to_chromadb: the loop variable i of the batch loop
  added,       \* history: every collection.add (see Pass), in order
  ipc,         \* ingest_to_chromadb: "open", "prepare", "loop", "done",
               \* "empty", "failed"
  args,        \* query_chromadb.main: the parsed command line
  qpc,         \* query_chromadb: "create", "ready", "searched", "error"
  call,        \* history: the search method entered last and its arguments
  request,     \* what collection.query was handed: <<>> until a query is sent
  qerror,      \* the ValueError __init__ raised: <<>> when none
  lookups,     \* history: the number of get_collection calls
  report,      \* ingest_to_chromadb: the final statistics it prints, <<>>
               \* until then
  sub_no,      \* example_multi_query_rag: the loop variable i
  all_contexts, \* example_multi_query_rag: the pooled contexts
  searches,    \* history: [request, results] of every collection.query
  first_run,   \* history: the file an earlier run of the pipeline wrote
  ChromaDBConfig, \* the attributes of the class ChromaDBConfig
  configs      \* history: every configuration object created, in order

loopVars == <<text, pc, start, chunks, cuts>>
mainVars == <<doc, include_tables, mpc, item_no, chunk_id, rag_chunks, output>>
ingestVars == <<data, reset, include_types, exclude_types, batch_size, ids,
                documents, metadatas, batch_start, added, ipc, report>>
queryVars == <<args, qpc, call, request, qerror, lookups>>
storeVars == <<db, collection_name>>
exampleVars == <<sub_no, all_contexts, searches>>
configVars == <<ChromaDBConfig, configs>>
otherThanPipeline ==
  <<ingestVars, queryVars, storeVars, exampleVars, configVars, first_run>>
vars == <<text, chunk_size, overlap, pc, start, chunks, cuts,
          doc, include_tables, mpc, item_no, chunk_id, rag_chunks, output,
          db, collection_name, data, reset, include_types, exclude_types,
          batch_size, ids, documents, metadatas, batch_start, added, ipc,
          args, qpc, call, request, qerror, lookups, report,
          sub_no, all_contexts, searches, first_run, ChromaDBConfig, configs>>

\* The library call of the query side that stands for "nothing entered yet".
NoCall ==
  [entry |-> "none", n_results |-> 0, content_type |-> "",
   page_min |-> NoPage, page_max |-> NoPage, where |-> <<>>]

\* main's parsed arguments when query_chromadb is not run from its command
\* line.
NoArgs ==
  [cli |-> FALSE, n_results |-> 0, content_type |-> "", tables_only |-> FALSE,
   page_min |-> NoPage, page_max |-> NoPage]

\* ingest_to_chromadb is not running.
IngestIdle ==
  /\ data = <<>>
  /\ reset = FALSE
  /\ include_types = {}
  /\ exclude_types = {}
  /\ batch_size = 0
  /\ ids = <<>>
  /\ documents = <<>>
  /\ metadatas = <<>>
  /\ batch_start = 0
  /\ added = <<>>
  /\ ipc = "idle"
  /\ report = <<>>

\* query_chromadb is not running.
QueryIdle ==
  /\ args = NoArgs
  /\ qpc = "idle"
  /\ call = NoCall
  /\ request = <<>>
  /\ qerror = <<>>
  /\ lookups = 0

\* No vector database is in use.
StoreIdle == db = <<>> /\ collection_name = ""

\* ChromaDBConfig.COLLECTION_NAME
COLLECTION_NAME == "docling_rag_chunks"

\* ChromaDBConfig.PERSIST_DIRECTORY
PERSIST_DIRECTORY == "./vectordb"

\* The class attributes as chromadb_config.py defines them.
ClassDefaults ==
  [COLLECTION_NAME |-> COLLECTION_NAME, PERSIST_DIRECTORY |-> PERSIST_DIRECTORY,
   BATCH_SIZE |-> BATCH_SIZE]

\* example_multi_query_rag is not running.
ExampleIdle == sub_no = 0 /\ all_contexts = <<>> /\ searches = <<>>

\* No configuration object has been created.
ConfigIdle == ChromaDBConfig = ClassDefaults /\ configs = <<>>

\* Neither the example, nor a second run of the pipeline, nor a second
\* configuration object.
NoOtherRun == ExampleIdle /\ ConfigIdle /\ first_run = <<>>

\* main is not running: chunk_text is called on its own.
MainIdle ==
  /\ doc = <<>>
  /\ include_tables = FALSE
  /\ mpc = "idle"
  /\ item_no = 0
  /\ chunk_id = 0
  /\ rag_chunks = <<>>
  /\ output = <<>>

Texts == UNION {[1..n -> Chars] : n \in 0..MaxLen}

\* The list is unbounded in the program; the model keeps its first MaxChunks
\* entries (no returning run of the bounded inputs is that long).
Push(list, x) == IF Len(list) < MaxChunks THEN Append(list, x) ELSE list

\* The worked scenario: 2400 characters without any sentence punctuation,
\* segmented with the default chunk_size and overlap.
ScenarioText == [i \in 1..2400 |-> "a"]
IsScenario ==
  text = ScenarioText /\ chunk_size = DEFAULT_CHUNK_SIZE /\ overlap = DEFAULT_OVERLAP

\* chunk_text is about to be called.
AtCall ==
  /\ pc = "call"
  /\ start = 0
  /\ chunks = <<>>
  /\ cuts = <<>>
  /\ MainIdle
  /\ IngestIdle /\ QueryIdle /\ StoreIdle /\ NoOtherRun

\* Every bounded text with every bounded configuration, valid or not.
InitChunk ==
  /\ text \in Texts
  /\ chunk_size \in 0..MaxSize
  /\ overlap \in 0..MaxSize
  /\ AtCall

InitScenario == IsScenario /\ AtCall

\* if len(text) <= chunk_size: return [text]
ReturnWhole ==
  /\ pc = "call"
  /\ Len(text) <= chunk_size
  /\ chunks' = <<text>>
  /\ cuts' = <<<<0, Len(text)>>>>
  /\ pc' = "returned"
  /\ UNCHANGED <<text, chunk_size, overlap, start>>
  /\ UNCHANGED mainVars
  /\ UNCHANGED otherThanPipeline

\* chunks = []; start = 0
EnterLoop ==
  /\ pc = "call"
  /\ Len(text) > chunk_size
  /\ chunks' = <<>>
  /\ start' = 0
  /\ pc' = "while"
  /\ UNCHANGED <<text, chunk_size, overlap, cuts>>
  /\ UNCHANGED mainVars
  /\ UNCHANGED otherThanPipeline

\* while start < len(text): the loop test; a false test falls through to
\* return chunks.
WhileTest ==
  /\ pc = "while"
  /\ pc' = IF start < Len(text) THEN "body" ELSE "returned"
  /\ UNCHANGED <<text, chunk_size, overlap, start, chunks, cuts>>
  /\ UNCHANGED mainVars
  /\ UNCHANGED otherThanPipeline

\* A loop body whose boundary search raises IndexError.
IterateRaise ==
  /\ pc = "body"
  /\ ScanRaises(text, start, chunk_size)
  /\ pc' = "raised"
  /\ UNCHANGED <<text, chunk_size, overlap, start, chunks, cuts>>
  /\ UNCHANGED mainVars
  /\ UNCHANGED otherThanPipeline

\* The loop body: boundary search, append, cursor update, and the break
\* (which returns chunks) when the new cursor is at or past len(text).
Iterate ==
  /\ pc = "body"
  /\ ~ScanRaises(text, start, chunk_size)
  /\ start >= -MaxDescent
  /\ LET end == Boundary(text, start, chunk_size)
         nxt == NextStart(end, overlap)
     IN  /\ chunks' = Push(chunks, Fragment(text, start, end))
         /\ cuts' = Push(cuts, <<start, end>>)
         /\ start' = nxt
         /\ pc' = IF nxt >= Len(text) THEN "returned" ELSE "while"
  /\ UNCHANGED <<text, chunk_size, overlap>>
  /\ UNCHANGED mainVars
  /\ UNCHANGED otherThanPipeline

NextChunk == ReturnWhole \/ EnterLoop \/ WhileTest \/ IterateRaise \/ Iterate

SpecChunk == (InitChunk \/ InitScenario) /\ [][NextChunk]_vars

\* The interpreter keeps running the loop while it can.  (Bounded inputs.)
FairSpecChunk == InitChunk /\ [][NextChunk]_vars /\ WF_vars(NextChunk)

\* ---------------------------------------------------------------------- main
\* The documents the converter may hand over: at most MaxItems items holding
\* at most MaxDocLen characters in all, every item on the document's one
\* page or none with provenance.  An item's content is its text, or its
\* markdown export when it has no text.
PipeChars == {"a", "\n"}
Labels == {"text", "table", "document_index"}
Pages == {NoPage, PageNo(1)}
PipeTexts == UNION {[1..n -> PipeChars] : n \in 0..MaxDocLen}

RECURSIVE TotalLen(_)
TotalLen(sh) == IF sh = <<>> THEN 0 ELSE Len(Head(sh)[1]) + TotalLen(Tail(sh))

Shapes ==
  {sh \in UNION {[1..n -> PipeTexts \X Labels] : n \in 0..MaxItems} :
     TotalLen(sh) <= MaxDocLen}

MkDoc(sh, page) ==
  [k \in 1..Len(sh) |-> [content |-> sh[k][1], label |-> sh[k][2], page |-> page]]

Docs == {MkDoc(sh, page) : sh \in Shapes, page \in Pages}

\* chunk_text is not being stepped: main calls it as a function.
LoopIdle ==
  /\ text = <<>>
  /\ pc = "idle"
  /\ start = 0
  /\ chunks = <<>>
  /\ cuts = <<>>

\* main has parsed its arguments and calls extract_rag_chunks, which has
\* converted the document: chunks = [], chunk_id = 0.
InitMain ==
  /\ doc \in Docs
  /\ include_tables \in BOOLEAN
  /\ chunk_size \in 1..MaxPipeSize
  /\ overlap \in 0..(chunk_size - 1)
  /\ mpc = "extract"
  /\ item_no = 1
  /\ chunk_id = 0
  /\ rag_chunks = <<>>
  /\ output = <<>>
  /\ LoopIdle
  /\ IngestIdle /\ QueryIdle /\ StoreIdle /\ NoOtherRun

AtItem == mpc = "extract" /\ item_no <= Len(doc)

\* An item without content is skipped.
SkipItem ==
  /\ AtItem
  /\ Blank(doc[item_no].content)
  /\ item_no' = item_no + 1
  /\ UNCHANGED <<chunk_size, overlap, doc, include_tables, mpc, chunk_id,
                 rag_chunks, output>>
  /\ UNCHANGED loopVars
  /\ UNCHANGED otherThanPipeline

\* A long item that is not labelled 'table' goes through chunk_text, and
\* one dictionary per fragment is appended.  A chunk_text that never ends
\* hangs the run; one that raises ends main through its except clause.
SplitItem ==
  /\ AtItem
  /\ ~Blank(doc[item_no].content)
  /\ Splits(doc[item_no], chunk_size)
  /\ LET item == doc[item_no]
         r == chunk_text(item.content, chunk_size, overlap)
         frags == r.chunks
     IN  IF r.status = "returned"
         THEN /\ rag_chunks' = rag_chunks \o
                   [i \in 1..Len(frags) |-> PartialChunk(chunk_id, item, frags, i)]
              /\ chunk_id' = NextId(chunk_id, Len(frags))
              /\ item_no' = item_no + 1
              /\ mpc' = mpc
         ELSE /\ mpc' = IF r.status = "diverges" THEN "hung" ELSE "failed"
              /\ UNCHANGED <<rag_chunks, chunk_id, item_no>>
  /\ UNCHANGED <<chunk_size, overlap, doc, include_tables, output>>
  /\ UNCHANGED loopVars
  /\ UNCHANGED otherThanPipeline

\* Any other item is kept as a single chunk, its text stripped.
KeepItem ==
  /\ AtItem
  /\ ~Blank(doc[item_no].content)
  /\ ~Splits(doc[item_no], chunk_size)
  /\ rag_chunks' = Append(rag_chunks, WholeChunk(chunk_id, doc[item_no]))
  /\ chunk_id' = NextId(chunk_id, 1)
  /\ item_no' = item_no + 1
  /\ UNCHANGED <<chunk_size, overlap, doc, include_tables, mpc, output>>
  /\ UNCHANGED loopVars
  /\ UNCHANGED otherThanPipeline

\* extract_rag_chunks returns; main goes on to the tables or to the save.
ExtractReturn ==
  /\ mpc = "extract"
  /\ item_no > Len(doc)
  /\ mpc' = IF include_tables THEN "tables" ELSE "save"
  /\ UNCHANGED <<chunk_size, overlap, doc, include_tables, item_no, chunk_id,
                 rag_chunks, output>>
  /\ UNCHANGED loopVars
  /\ UNCHANGED otherThanPipeline

\* table_chunks = extract_tables_for_rag(pdf_path); chunks.extend(table_chunks)
ExtendTables ==
  /\ mpc = "tables"
  /\ rag_chunks' = rag_chunks \o extract_tables_for_rag(doc)
  /\ mpc' = "save"
  /\ UNCHANGED <<chunk_size, overlap, doc, include_tables, item_no, chunk_id,
                 output>>
  /\ UNCHANGED loopVars
  /\ UNCHANGED otherThanPipeline

\* save_rag_output(chunks, output_path)
Save ==
  /\ mpc = "save"
  /\ output' = <<[total_chunks |-> Len(rag_chunks), chunks |-> rag_chunks]>>
  /\ mpc' = "done"
  /\ UNCHANGED <<chunk_size, overlap, doc, include_tables, item_no, chunk_id,
                 rag_chunks>>
  /\ UNCHANGED loopVars
  /\ UNCHANGED otherThanPipeline

NextMain ==
  SkipItem \/ SplitItem \/ KeepItem \/ ExtractReturn \/ ExtendTables \/ Save

SpecMain == InitMain /\ [][NextMain]_vars

\* Mutant of the start of a run: the id counter goes on from the last run.
IdAtStart_Carried(last) == last

\* chunk_id = 0 at the top of extract_rag_chunks, whatever ran before.
IdAtStart(last) == 0

\* main is run again on the same document with the same arguments after a
\* run that wrote its file: extract_rag_chunks starts from chunks = [] and
\* chunk_id = 0, and the file of the first run is there until the second
\* run writes it anew.
RunAgain ==
  /\ mpc = "done"
  /\ first_run = <<>>
  /\ first_run' = output
  /\ mpc' = "extract"
  /\ item_no' = 1
  /\ chunk_id' = IdAtStart(chunk_id)
  /\ rag_chunks' = <<>>
  /\ UNCHANGED <<chunk_size, overlap, doc, include_tables, output>>
  /\ UNCHANGED loopVars
  /\ UNCHANGED <<ingestVars, queryVars, storeVars, exampleVars, configVars>>

\* Two runs of main --include-tables, one after the other.
InitRerun == InitMain /\ include_tables

NextRerun == NextMain \/ RunAgain

SpecRerun == InitRerun /\ [][NextRerun]_vars

\* ---------------------------------------------------------- chromadb_config
\* The keys of ChromaDBConfig.METADATA_FIELDS.
METADATA_FIELDS ==
  {"source", "content_type", "page", "chunk_index", "total_chunks",
   "is_partial", "is_table", "char_count"}

\* config.COLLECTION_NAME once 'if collection_name:' has overridden it.
ConfigCollection ==
  IF collection_name # "" THEN collection_name ELSE COLLECTION_NAME

\* config.BATCH_SIZE once 'if batch_size:' has overridden it.
ConfigBatchSize == IF batch_size # 0 THEN batch_size ELSE BATCH_SIZE

\* ------------------------------------------------------- prepare_chunk_data
\* f"chunk_{chunk['chunk_id']}"
DocId(cid) == [type |-> "str", prefix |-> "chunk_" \o cid.prefix, n |-> cid.n]

\* Mutant of the page default: the trailing 'or 0' forgotten, so that a
\* null page stays null.
PageOrZero_NoOr(meta) == IF "page" \in DOMAIN meta THEN meta.page ELSE PageNo(0)

\* chunk['metadata'].get('page', 0) or 0: a page that is missing, None or 0
\* becomes the int 0.
PageOrZero(meta) ==
  IF "page" \in DOMAIN meta /\ meta.page.some /\ meta.page.n # 0
  THEN meta.page
  ELSE PageNo(0)

\* Mutant of the filters: the exclude set is tested the wrong way round.
Kept_ExcludeInverted(chunk, inc, exc) ==
  LET content_type == chunk.metadata.content_type
  IN  /\ ~(inc # {} /\ content_type \notin inc)
      /\ ~(exc # {} /\ content_type \notin exc)

\* The two 'continue' filters on content_type; an empty or missing set
\* filters nothing.
Kept(chunk, inc, exc) ==
  LET content_type == chunk.metadata.content_type
  IN  /\ ~(inc # {} /\ content_type \notin inc)
      /\ ~(exc # {} /\ content_type \in exc)

\* The subscripts chunk['metadata'][...] the metadata dictionary is built
\* from; a missing one raises KeyError.
Subscripted == {"source", "chunk_index", "total_chunks", "is_partial"}
RaisesKeyError(chunk) == ~(Subscripted \subseteq DOMAIN chunk.metadata)

\* The metadata dictionary built for one chunk.
PreparedMeta(chunk) ==
  [source       |-> chunk.metadata.source,
   content_type |-> chunk.metadata.content_type,
   page         |-> PageOrZero(chunk.metadata),
   chunk_index  |-> chunk.metadata.chunk_index,
   total_chunks |-> chunk.metadata.total_chunks,
   is_partial   |-> chunk.metadata.is_partial,
   is_table     |-> chunk.metadata.content_type \in TABLE_CONTENT_TYPES,
   char_count   |-> Len(chunk.text)]

\* The for loop of prepare_chunk_data from position k on, the three lists
\* so far in acc.
RECURSIVE PrepareFrom(_, _, _, _, _)
PrepareFrom(cs, k, inc, exc, acc) ==
  IF k > Len(cs) THEN acc
  ELSE IF ~Kept(cs[k], inc, exc) THEN PrepareFrom(cs, k + 1, inc, exc, acc)
  ELSE IF RaisesKeyError(cs[k]) THEN [acc EXCEPT !.status = "KeyError"]
  ELSE PrepareFrom(cs, k + 1, inc, exc,
         [status    |-> acc.status,
          ids       |-> Append(acc.ids, DocId(cs[k].chunk_id)),
          documents |-> Append(acc.documents, cs[k].text),
          metadatas |-> Append(acc.metadatas, PreparedMeta(cs[k]))])

prepare_chunk_data(cs, inc, exc) ==
  PrepareFrom(cs, 1, inc, exc,
    [status |-> "returned", ids |-> <<>>, documents |-> <<>>, metadatas |-> <<>>])

\* ------------------------------------------------------- ingest_to_chromadb
\* The entries collection.add is handed for the slice [a:b] of the prepared
\* lists.
BatchEntries(a, b) ==
  {[id |-> ids[k], document |-> documents[k], metadata |-> metadatas[k]] :
     k \in (a + 1)..b}

\* The vector index refuses a batch that names one id twice.
HasDuplicateIds(a, b) == \E j, k \in (a + 1)..b : j # k /\ ids[j] = ids[k]

\* A successful collection.add: entries whose id the collection already
\* holds are left as they were.
AddTo(coll, entries) ==
  coll \cup {e \in entries : \A x \in coll : x.id # e.id}

\* batch_end = min(i + config.BATCH_SIZE, len(documents))
BatchEnd(i) == Min(i + ConfigBatchSize, Len(documents))

\* Mutant of the slice: the batch is cut one element short at its front.
BatchSlice_Short(list, i) == SubSeq(list, i + 2, BatchEnd(i))

\* list[i:batch_end]
BatchSlice(list, i) == SubSeq(list, i + 1, BatchEnd(i))

\* One pass of the batch loop as the history keeps it: the bounds of the
\* slice, the three lists collection.add is handed, and whether it returned.
Pass(i, ok) ==
  [from |-> i, to |-> BatchEnd(i), ok |-> ok,
   batch_ids |-> BatchSlice(ids, i),
   batch_documents |-> BatchSlice(documents, i),
   batch_metadatas |-> BatchSlice(metadatas, i)]

\* Mutant of the except clause: the failed batch is tried again.
AfterFailure_Retry(i) == i

\* except Exception: ... continue -- the for loop moves to the next batch.
AfterFailure(i) == i + ConfigBatchSize

\* An entry left in the collection by an earlier ingestion of another file.
PriorEntry ==
  [id |-> DocId(IntId(1)),
   document |-> <<"z">>,
   metadata |-> [source |-> "old.pdf", content_type |-> "text",
                 page |-> PageNo(1), chunk_index |-> 0, total_chunks |-> 1,
                 is_partial |-> FALSE, is_table |-> FALSE, char_count |-> 1]]

\* The database before the run: without the collection, with it empty, or
\* with it holding an entry.
Stores ==
  {<<>>, [n \in {COLLECTION_NAME} |-> {}], [n \in {COLLECTION_NAME} |-> {PriorEntry}]}

\* A chunk of a loaded file without its page key.
DropPage(c) ==
  [c EXCEPT !.metadata = [f \in (DOMAIN c.metadata) \ {"page"} |-> c.metadata[f]]]

\* The chunks a loaded file may hold at position k: a chunk of
\* extract_rag_chunks (a partial one for a text item, a whole one for the
\* other labels) with a page that is a number, 0, null or missing, or a
\* chunk of extract_tables_for_rag.
PageKinds == {"number", "zero", "null", "absent"}
FilePage(kind) ==
  IF kind = "number" THEN PageNo(3) ELSE IF kind = "zero" THEN PageNo(0) ELSE NoPage

FileChunk(k, v) ==
  LET item == [content |-> v.text, label |-> v.label, page |-> FilePage(v.page)]
      c == IF v.kind = "table" THEN TableChunk(1, item)
           ELSE IF Len(v.text) > 1
                THEN PartialChunk(k - 2, item, <<v.text, v.text>>, 2)
                ELSE WholeChunk(k - 1, item)
  IN  IF v.page = "absent" THEN DropPage(c) ELSE c

Variants ==
  {[kind |-> "rag", text |-> IF l = "text" THEN <<"a", "a">> ELSE <<"a">>,
    label |-> l, page |-> pg] : l \in Labels, pg \in PageKinds}
  \cup {[kind |-> "table", text |-> <<"a">>, label |-> "table", page |-> "null"]}

Files ==
  UNION {{[k \in 1..n |-> FileChunk(k, f[k])] : f \in [1..n -> Variants]} :
           n \in 0..MaxData}

\* A file of n whole text chunks numbered 1..n.
PlainFile(n) ==
  [k \in 1..n |-> WholeChunk(k - 1, [content |-> <<"a">>, label |-> "text",
                                     page |-> PageNo(1)])]

\* pdf_to_rag is not running.
PipeIdle ==
  /\ chunk_size = 0 /\ overlap = 0
  /\ doc = <<>> /\ include_tables = FALSE /\ mpc = "idle" /\ item_no = 0
  /\ chunk_id = 0 /\ rag_chunks = <<>> /\ output = <<>>
  /\ LoopIdle

\* ingest_to_chromadb has loaded its configuration and the file.
AtIngest ==
  /\ ids = <<>> /\ documents = <<>> /\ metadatas = <<>>
  /\ batch_start = 0 /\ added = <<>>
  /\ ipc = "open"
  /\ report = <<>>
  /\ collection_name = ""
  /\ PipeIdle /\ QueryIdle /\ NoOtherRun

\* Any file, with and without type filters, into a fresh database.
InitPrepare ==
  /\ data \in Files
  /\ include_types \in {{}, {"table"}}
  /\ exclude_types \in {{}, {"text"}, {"table"}}
  /\ batch_size = 0
  /\ reset = FALSE
  /\ db = <<>>
  /\ AtIngest

\* Files of plain chunks in batches of every size, into every database.
InitBatch ==
  /\ data \in {PlainFile(n) : n \in 0..MaxDocs}
  /\ include_types = {} /\ exclude_types = {}
  /\ batch_size \in 0..MaxBatch
  /\ reset \in BOOLEAN
  /\ db \in Stores
  /\ AtIngest

\* A file of one chunk, with and without type filters and --reset, into
\* every database.
InitReset ==
  /\ data \in {<<FileChunk(1, v)>> : v \in Variants}
  /\ include_types \in {{}, {"table"}}
  /\ exclude_types \in {{}, {"text"}}
  /\ batch_size = 0
  /\ reset \in BOOLEAN
  /\ db \in Stores
  /\ AtIngest

otherThanIngest ==
  <<loopVars, chunk_size, overlap, mainVars, queryVars, collection_name,
    exampleVars, configVars, first_run>>

\* if reset: delete_collection (a missing collection is passed over);
\* get_or_create_collection
OpenCollection ==
  /\ ipc = "open"
  /\ db' = [n \in DOMAIN db \cup {ConfigCollection} |->
              IF n = ConfigCollection
              THEN (IF reset \/ n \notin DOMAIN db THEN {} ELSE db[n])
              ELSE db[n]]
  /\ ipc' = "prepare"
  /\ UNCHANGED <<data, reset, include_types, exclude_types, batch_size, ids,
                 documents, metadatas, batch_start, added, report>>
  /\ UNCHANGED otherThanIngest

\* prepare_chunk_data raises KeyError: the run ends in main's except clause.
PrepareRaise ==
  /\ ipc = "prepare"
  /\ prepare_chunk_data(data, include_types, exclude_types).status = "KeyError"
  /\ ipc' = "failed"
  /\ UNCHANGED <<db, data, reset, include_types, exclude_types, batch_size,
                 ids, documents, metadatas, batch_start, added, report>>
  /\ UNCHANGED otherThanIngest

\* ids, documents, metadatas = prepare_chunk_data(...); the function returns
\* at once when nothing is left to ingest.
Prepare ==
  /\ ipc = "prepare"
  /\ LET r == prepare_chunk_data(data, include_types, exclude_types)
     IN  /\ r.status = "returned"
         /\ ids' = r.ids
         /\ documents' = r.documents
         /\ metadatas' = r.metadatas
         /\ ipc' = IF r.documents = <<>> THEN "empty" ELSE "loop"
  /\ batch_start' = 0
  /\ UNCHANGED <<db, data, reset, include_types, exclude_types, batch_size,
                 added, report>>
  /\ UNCHANGED otherThanIngest

\* What follows a loop pass that leaves the loop variable at i.
LoopOrDone(i) == IF i < Len(documents) THEN "loop" ELSE "done"

\* What the run has printed as its statistics once a loop pass leaves the
\* loop variable at i: nothing while the loop goes on, then
\* collection.count(), the collection name and the persistence directory,
\* which get_persist_directory reads from the class.
Reported(store, i) ==
  IF LoopOrDone(i) = "done"
  THEN <<[final_count |-> Cardinality(store[ConfigCollection]),
          collection_name |-> ConfigCollection,
          persist_directory |-> ChromaDBConfig.PERSIST_DIRECTORY]>>
  ELSE <<>>

\* One pass of the batch loop whose collection.add succeeds.
AddBatch ==
  /\ ipc = "loop"
  /\ ~HasDuplicateIds(batch_start, BatchEnd(batch_start))
  /\ db' = [db EXCEPT ![ConfigCollection] =
              AddTo(@, BatchEntries(batch_start, BatchEnd(batch_start)))]
  /\ added' = Append(added, Pass(batch_start, TRUE))
  /\ batch_start' = batch_start + ConfigBatchSize
  /\ ipc' = LoopOrDone(batch_start')
  /\ report' = Reported(db', batch_start')
  /\ UNCHANGED <<data, reset, include_types, exclude_types, batch_size, ids,
                 documents, metadatas>>
  /\ UNCHANGED otherThanIngest

\* One pass of the batch loop whose collection.add raises: the error is
\* printed and the loop continues.
AddBatchFails ==
  /\ ipc = "loop"
  /\ Len(added) < MaxDocs + 2  \* the history is capped; no run gets there
  /\ added' = Append(added, Pass(batch_start, FALSE))
  /\ batch_start' = AfterFailure(batch_start)
  /\ ipc' = LoopOrDone(batch_start')
  /\ report' = Reported(db, batch_start')
  /\ UNCHANGED <<db, data, reset, include_types, exclude_types, batch_size, ids,
                 documents, metadatas>>
  /\ UNCHANGED otherThanIngest

NextIngest == OpenCollection \/ PrepareRaise \/ Prepare \/ AddBatch \/ AddBatchFails

SpecIngest == (InitPrepare \/ InitBatch \/ InitReset) /\ [][NextIngest]_vars

\* ------------------------------------------------------------ query_chromadb
\* A where filter is None (<<>>) or a one-element tuple holding the Python
\* dictionary, itself a function from its keys; {} is the empty function.
None == <<>>
Some(d) == <<d>>
EmptyDict == <<>>

\* {"page": {"$gte": n}} and {"page": {"$lte": n}}
PageGte(n) == [page |-> ("$gte" :> n)]
PageLte(n) == [page |-> ("$lte" :> n)]

\* Mutant of the ceiling: the count is passed on as requested.
Clamp_Unbounded(n) == n

\* min(n_results, self.config.MAX_RESULTS)
Clamp(n) == Min(n, MAX_RESULTS)

\* similarity_search: what collection.query is handed.
similarity_search(n_results, where) ==
  [query_texts |-> <<"q">>, n_results |-> Clamp(n_results), where |-> where,
   where_document |-> None]

search_by_content_type(content_type, n_results) ==
  similarity_search(n_results, Some([content_type |-> content_type]))

search_tables_only(n_results) ==
  similarity_search(n_results, Some([is_table |-> TRUE]))

\* Mutant of the bound test: 'if page_min' in place of 'is not None', which
\* takes a bound of 0 for a missing one.
Given_Truthy(bound) == bound.some /\ bound.n # 0

\* page_min is not None
Given(bound) == bound.some

\* where_filter as search_by_page_range builds it.
PageWhere(page_min, page_max) ==
  IF Given(page_min) /\ Given(page_max)
  THEN ("$and" :> <<PageGte(page_min.n), PageLte(page_max.n)>>)
  ELSE IF Given(page_min) THEN PageGte(page_min.n)
  ELSE IF Given(page_max) THEN PageLte(page_max.n)
  ELSE EmptyDict

search_by_page_range(page_min, page_max, n_results) ==
  similarity_search(n_results, Some(PageWhere(page_min, page_max)))

\* Mutant of the lookup: get_or_create_collection in place of get_collection.
get_collection_OrCreate(store, name) ==
  [found |-> TRUE,
   store |-> [n \in DOMAIN store \cup {name} |->
                IF n \in DOMAIN store THEN store[n] ELSE {}]]

\* self.client.get_collection(name=...): raises when there is no such
\* collection, and leaves the database as it is.
get_collection(store, name) == [found |-> name \in DOMAIN store, store |-> store]

\* ValueError(f"Collection '{name}' not found. Please run
\* ingest_to_chromadb.py first. Error: {e}")
NotFoundError(name) ==
  [type |-> "ValueError", collection |-> name, run_first |-> "ingest_to_chromadb.py"]

\* The vector index evaluating a where dictionary on a stored metadata
\* record: $and of its parts, $gte / $lte on a number, equality otherwise.
FieldValue(meta, f) == IF f = "page" THEN meta.page.n ELSE meta[f]

RECURSIVE Matches(_, _)
Matches(d, meta) ==
  IF "$and" \in DOMAIN d
  THEN \A k \in 1..Len(d["$and"]) : Matches(d["$and"][k], meta)
  ELSE \A f \in DOMAIN d :
         IF f = "page"
         THEN /\ "$gte" \in DOMAIN d[f] => FieldValue(meta, f) >= d[f]["$gte"]
              /\ "$lte" \in DOMAIN d[f] => FieldValue(meta, f) <= d[f]["$lte"]
         ELSE FieldValue(meta, f) = d[f]

\* The metadata fields a where dictionary names.
RECURSIVE Fields(_)
Fields(d) ==
  IF "$and" \in DOMAIN d
  THEN UNION {Fields(d["$and"][k]) : k \in 1..Len(d["$and"])}
  ELSE DOMAIN d

\* The inputs: result counts around the default and the ceiling, page
\* bounds, content types, collections.
Counts == {-1, 0, DEFAULT_N_RESULTS, MAX_RESULTS - 1, MAX_RESULTS, MAX_RESULTS + 1, 10000}
PageBounds == {NoPage, PageNo(0), PageNo(10), PageNo(20)}
ContentTypeArgs == {"", "table", "text"}
CollectionArgs == {"", "my_docs"}

\* The where argument a caller of similarity_search may pass.
WhereArgs == 1..4
WhereArg(j) ==
  CASE j = 1 -> None
    [] j = 2 -> Some([content_type |-> "table"])
    [] j = 3 -> Some([author |-> "x"])
    [] j = 4 -> Some(("$and" :> <<PageGte(1), [section |-> "intro"]>>))

\* The command lines of query_chromadb.py that carry a query text.
CliArgs ==
  {[cli |-> TRUE, n_results |-> n, content_type |-> ct, tables_only |-> t,
    page_min |-> lo, page_max |-> hi] :
     n \in Counts, ct \in ContentTypeArgs, t \in BOOLEAN,
     lo \in PageBounds, hi \in PageBounds}

\* The database a query finds: empty, or with the default collection, or
\* with both collections.
QueryStores ==
  {<<>>, [n \in {COLLECTION_NAME} |-> {PriorEntry}],
   [n \in {COLLECTION_NAME, "my_docs"} |-> {PriorEntry}]}

\* A ChromaDBQuerier is about to be created, by main or by a caller of the
\* module.
InitQuery ==
  /\ args \in CliArgs \cup {NoArgs}
  /\ collection_name \in CollectionArgs
  /\ db \in QueryStores
  /\ qpc = "create"
  /\ call = NoCall
  /\ request = <<>>
  /\ qerror = <<>>
  /\ lookups = 0
  /\ PipeIdle /\ IngestIdle /\ NoOtherRun

otherThanQuery ==
  <<loopVars, chunk_size, overlap, mainVars, ingestVars, exampleVars,
    configVars, first_run>>

\* __init__ when the lookup finds the collection.
CreateQuerier ==
  /\ qpc = "create"
  /\ LET r == get_collection(db, ConfigCollection)
     IN  /\ r.found
         /\ db' = r.store
  /\ lookups' = lookups + 1
  /\ qpc' = "ready"
  /\ UNCHANGED <<args, call, request, qerror, collection_name>>
  /\ UNCHANGED otherThanQuery

\* __init__ when the lookup raises: ValueError, which main prints before it
\* exits with status 1.
CreateQuerierFails ==
  /\ qpc = "create"
  /\ LET r == get_collection(db, ConfigCollection)
     IN  /\ ~r.found
         /\ db' = r.store
  /\ lookups' = lookups + 1
  /\ qerror' = <<NotFoundError(ConfigCollection)>>
  /\ qpc' = "error"
  /\ UNCHANGED <<args, call, request, collection_name>>
  /\ UNCHANGED otherThanQuery

\* The method entered with its arguments, and the query it sends.
Enter(entry, n_results, content_type, page_min, page_max, where, req) ==
  /\ call' = [entry |-> entry, n_results |-> n_results,
              content_type |-> content_type, page_min |-> page_min,
              page_max |-> page_max, where |-> where]
  /\ request' = <<req>>
  /\ qpc' = "searched"
  /\ UNCHANGED <<args, qerror, lookups, db, collection_name>>
  /\ UNCHANGED otherThanQuery

\* search_tables_only: from main when --tables-only is set.
SearchTablesOnly ==
  /\ qpc = "ready"
  /\ \E n \in Counts :
       /\ args.cli => args.tables_only /\ n = args.n_results
       /\ Enter("search_tables_only", n, "", NoPage, NoPage, None,
                search_tables_only(n))

\* search_by_content_type: from main when --content-type is set and
\* --tables-only is not.
SearchByContentType ==
  /\ qpc = "ready"
  /\ \E n \in Counts, ct \in ContentTypeArgs \ {""} :
       /\ args.cli => /\ ~args.tables_only
                      /\ ct = args.content_type
                      /\ n = args.n_results
       /\ Enter("search_by_content_type", n, ct, NoPage, NoPage, None,
                search_by_content_type(ct, n))

\* search_by_page_range: from main when a page bound is given and neither
\* --tables-only nor --content-type is.
SearchByPageRange ==
  /\ qpc = "ready"
  /\ \E n \in Counts, lo \in PageBounds, hi \in PageBounds :
       /\ args.cli => /\ ~args.tables_only
                      /\ args.content_type = ""
                      /\ args.page_min.some \/ args.page_max.some
                      /\ lo = args.page_min /\ hi = args.page_max
                      /\ n = args.n_results
       /\ Enter("search_by_page_range", n, "", lo, hi, None,
                search_by_page_range(lo, hi, n))

\* similarity_search: from main when no filter option is given (where is
\* then None).
SimilaritySearch ==
  /\ qpc = "ready"
  /\ \E n \in Counts, j \in WhereArgs :
       /\ args.cli => /\ ~args.tables_only
                      /\ args.content_type = ""
                      /\ ~(args.page_min.some \/ args.page_max.some)
                      /\ j = 1
                      /\ n = args.n_results
       /\ Enter("similarity_search", n, "", NoPage, NoPage, WhereArg(j),
                similarity_search(n, WhereArg(j)))

NextQuery ==
  \/ CreateQuerier \/ CreateQuerierFails
  \/ SearchTablesOnly \/ SearchByContentType \/ SearchByPageRange
  \/ SimilaritySearch

SpecQuery == InitQuery /\ [][NextQuery]_vars

\* ---------------------------------------------------------- example_query_rag
\* queries of example_multi_query_rag
Queries ==
  <<"revenue changes", "factors affecting revenue", "net interest income components">>

\* An entry an ingestion stored for chunk k of a file, on page k.
StoredEntry(k) ==
  LET c == WholeChunk(k - 1, [content |-> <<"a">>, label |-> "text",
                              page |-> PageNo(k)])
  IN  [id |-> DocId(c.chunk_id), document |-> c.text, metadata |-> PreparedMeta(c)]

\* The database the example finds: without the collection, or with it
\* holding the entries of a file of up to MaxStored chunks.
ExampleStores ==
  {<<>>} \cup {[n \in {COLLECTION_NAME} |-> {StoredEntry(k) : k \in 1..m}] :
                 m \in 0..MaxStored}

\* collection.query: the stored entries that satisfy the where filter, the
\* n_results nearest of them in the order of their distance to the query;
\* which ones those are is the embedding model's matter, so every choice and
\* every order is a possible answer.
QueryResults(coll, req) ==
  LET matching == {e \in coll :
                     req.where = None \/ Matches(req.where[1], e.metadata)}
      m == Min(req.n_results, Cardinality(matching))
  IN  {r \in [1..m -> matching] : \A i, j \in 1..m : i # j => r[i] # r[j]}

\* context = {'text': doc, 'page': meta['page'], 'type': meta['content_type']}
Context(entry) ==
  [text |-> entry.document, page |-> entry.metadata.page,
   type |-> entry.metadata.content_type]

\* example_multi_query_rag is about to create its querier.
InitMulti ==
  /\ args = NoArgs
  /\ collection_name = ""
  /\ db \in ExampleStores
  /\ qpc = "create"
  /\ call = NoCall
  /\ request = <<>>
  /\ qerror = <<>>
  /\ lookups = 0
  /\ sub_no = 1
  /\ all_contexts = <<>>
  /\ searches = <<>>
  /\ PipeIdle /\ IngestIdle /\ ConfigIdle /\ first_run = <<>>

\* One pass of 'for i, query in enumerate(queries, 1)': the search with
\* n_results=2 and the append of one context per result; after the last
\* pass the function prints len(all_contexts) and returns.
SubQuery ==
  /\ qpc = "ready"
  /\ sub_no \in 1..Len(Queries)
  /\ LET query == Queries[sub_no]
         req == [similarity_search(SubQueryResults, None)
                   EXCEPT !.query_texts = <<query>>]
     IN  /\ call' = [entry |-> "similarity_search", n_results |-> SubQueryResults,
                     content_type |-> "", page_min |-> NoPage,
                     page_max |-> NoPage, where |-> None]
         /\ request' = <<req>>
         /\ \E results \in QueryResults(db[ConfigCollection], req) :
              /\ searches' = Append(searches, [request |-> req, results |-> results])
              /\ all_contexts' = all_contexts \o
                   [i \in 1..Len(results) |-> Context(results[i])]
  /\ sub_no' = sub_no + 1
  /\ qpc' = IF sub_no' > Len(Queries) THEN "done" ELSE "ready"
  /\ UNCHANGED <<args, qerror, lookups, db, collection_name>>
  /\ UNCHANGED <<loopVars, chunk_size, overlap, mainVars, ingestVars,
                 configVars, first_run>>

NextMulti == CreateQuerier \/ CreateQuerierFails \/ SubQuery

SpecMulti == InitMulti /\ [][NextMulti]_vars

\* ----------------------------------------------- configuration objects
\* A configuration object is its instance dictionary; the class attributes
\* are shared. st is [class, instance].

\* Mutant of the assignment: the attribute is set on the class.
SetAttr_OnClass(st, name, value) ==
  [class |-> [st.class EXCEPT ![name] = value], instance |-> st.instance]

\* config.NAME = value: Python sets the attribute on the instance.
SetAttr(st, name, value) ==
  [class |-> st.class,
   instance |-> [f \in DOMAIN st.instance \cup {name} |->
                   IF f = name THEN value ELSE st.instance[f]]]

\* config.NAME: the instance's attribute when it has one, else the class's.
GetAttr(st, name) ==
  IF name \in DOMAIN st.instance THEN st.instance[name] ELSE st.class[name]

\* 'if value: config.NAME = value' for a string and for an int.
OverrideStr(st, name, value) == IF value # "" THEN SetAttr(st, name, value) ELSE st
OverrideInt(st, name, value) == IF value # 0 THEN SetAttr(st, name, value) ELSE st

\* config = ChromaDBConfig(): an instance without attributes of its own.
NewConfig == [class |-> ChromaDBConfig, instance |-> <<>>]

\* create_custom_config
create_custom_config(pd, cn, bs) ==
  OverrideInt(OverrideStr(OverrideStr(NewConfig, "PERSIST_DIRECTORY", pd),
                          "COLLECTION_NAME", cn), "BATCH_SIZE", bs)

\* The object as the history keeps it: who created it with which arguments,
\* its instance dictionary, and the collection name, batch size and
\* directory it works with; get_persist_directory is a classmethod and reads
\* the class attribute.
Created(kind, cn, pd, bs, st) ==
  [kind |-> kind,
   given |-> [collection_name |-> cn, persist_directory |-> pd, batch_size |-> bs],
   instance |-> st.instance,
   collection |-> GetAttr(st, "COLLECTION_NAME"),
   batch |-> GetAttr(st, "BATCH_SIZE"),
   directory |-> st.class.PERSIST_DIRECTORY]

\* No object has been created yet; the class is as chromadb_config.py
\* defines it.
InitConfig ==
  /\ ConfigIdle
  /\ ExampleIdle /\ first_run = <<>>
  /\ PipeIdle /\ IngestIdle /\ QueryIdle /\ StoreIdle

\* The creation of an object whose configuration ends in state st.
Create(kind, cn, pd, bs, st) ==
  /\ Len(configs) < MaxObjects
  /\ ChromaDBConfig' = st.class
  /\ configs' = Append(configs, Created(kind, cn, pd, bs, st))
  /\ UNCHANGED <<loopVars, chunk_size, overlap, mainVars, ingestVars, queryVars,
                 storeVars, exampleVars, first_run>>

\* ingest_to_chromadb's configuration: collection_name and batch_size.
NewIngestion ==
  \E cn \in CollectionArgs, bs \in 0..MaxBatch :
    Create("ingest", cn, "", bs,
           OverrideInt(OverrideStr(NewConfig, "COLLECTION_NAME", cn),
                       "BATCH_SIZE", bs))

\* ChromaDBQuerier.__init__'s configuration: collection_name and
\* persist_directory.
NewQuerier ==
  \E cn \in CollectionArgs, pd \in {"", "./other"} :
    Create("querier", cn, pd, 0,
           OverrideStr(OverrideStr(NewConfig, "COLLECTION_NAME", cn),
                       "PERSIST_DIRECTORY", pd))

NewCustomConfig ==
  \E cn \in CollectionArgs, pd \in {"", "./other"}, bs \in 0..MaxBatch :
    Create("custom", cn, pd, bs, create_custom_config(pd, cn, bs))

NextConfig == NewIngestion \/ NewQuerier \/ NewCustomConfig

SpecConfig == InitConfig /\ [][NextConfig]_vars

ValidConfig == chunk_size > 0 /\ 0 <= overlap /\ overlap < chunk_size

\* The characters of text an append actually slices: text[start:end] with
\* Python's treatment of negative and oversized bounds.
CutFrom(k) == PyBound(text, cuts[k][1])
CutTo(k) == PyBound(text, cuts[k][2])

\* ------------------------------------------------------------------ claims

\* C1: with a valid configuration every chunk chunk_text emits has length
\* at most chunk_size.
C1_ChunkWithinMaxSize ==
  ValidConfig => \A k \in 1..Len(chunks) : Len(chunks[k]) <= chunk_size

\* C2: with a valid configuration the segmentation loop terminates: the
\* call eventually returns its chunk list.
C2_LoopTerminates == ValidConfig => <>(pc = "returned")

\* C3: with overlap >= chunk_size or chunk_size <= 0 the call fails before
\* any chunk is produced: it never enters the loop, never returns a list.
C3_InvalidConfigFailsFast ==
  (chunk_size <= 0 \/ overlap >= chunk_size) /\ pc # "call"
    => pc = "raised" /\ chunks = <<>> /\ cuts = <<>>

\* C4: with a valid configuration the spans [start, end) the chunks are cut
\* from start at 0 and each next span starts at or before the previous
\* span's end; once the call has returned, every span is the slice actually
\* taken from the text, the last span reaches len(text), and every character
\* position 0..len(text)-1 lies in some span.
C4_SpansCoverText ==
  ValidConfig =>
    /\ cuts # <<>> => cuts[1][1] = 0
    /\ \A k \in 1..(Len(cuts) - 1) : cuts[k + 1][1] <= cuts[k][2]
    /\ pc = "returned" =>
         /\ cuts # <<>>
         /\ \A k \in 1..Len(cuts) : CutFrom(k) = cuts[k][1]
         /\ cuts[Len(cuts)][2] >= Len(text)
         /\ \A p \in 0..(Len(text) - 1) :
              \E k \in 1..Len(cuts) : CutFrom(k) <= p /\ p < CutTo(k)

\* C4 witness: a returned call that made at least two cuts, one of them
\* snapped to a sentence terminator, with a positive overlap.
C4_Witness ==
  /\ ValidConfig /\ overlap > 0 /\ pc = "returned"
  /\ Len(cuts) >= 2
  /\ \E k \in 1..Len(cuts) : cuts[k][2] < cuts[k][1] + chunk_size

ChunkLengths == [k \in 1..Len(chunks) |-> Len(chunks[k])]
CutStarts == [k \in 1..Len(cuts) |-> cuts[k][1]]

\* C6 as stated: the scenario returns chunks of lengths 1000, 1000, 600, cut
\* at characters 0, 800 and 1800.
C6_ScenarioAsStated ==
  IsScenario /\ pc = "returned"
    => ChunkLengths = <<1000, 1000, 600>> /\ CutStarts = <<0, 800, 1800>>

\* C6 amended: the scenario returns exactly 3 chunks of lengths 1000, 1000,
\* 800, cut at characters 0, 800 and 1600.
C6_ScenarioAmended ==
  IsScenario /\ pc = "returned"
    => ChunkLengths = <<1000, 1000, 800>> /\ CutStarts = <<0, 800, 1600>>

\* C6 witness: the scenario call has returned.
C6_Witness == IsScenario /\ pc = "returned" /\ Len(chunks) = 3

\* ------------------------------------------------------- claims on main
NChunks == Len(rag_chunks)
Meta(p) == rag_chunks[p].metadata

\* The chunk at position p was built by extract_rag_chunks (the dictionaries
\* of extract_tables_for_rag carry no chunk_index).
FromExtract(p) == "chunk_index" \in DOMAIN Meta(p)

\* The items of doc the for loop has gone past.
Processed == 1..(item_no - 1)

\* C5: every chunk in the list of a pipeline run has a text that is
\* non-empty after trimming.
C5_ChunkTextNonEmpty ==
  \A p \in 1..NChunks : Strip(rag_chunks[p].text) # <<>>

\* C7: every item with content whose content type is in TABLE_CONTENT_TYPES
\* yields exactly one chunk, with chunk_index 0, total_chunks 1 and
\* is_partial false.
C7_TableTypesAtomic ==
  LET tableChunks == {p \in 1..NChunks : Meta(p).content_type \in TABLE_CONTENT_TYPES}
      tableItems == {k \in Processed :
                       /\ doc[k].label \in TABLE_CONTENT_TYPES
                       /\ ~Blank(doc[k].content)}
  IN  /\ Cardinality(tableChunks) = Cardinality(tableItems)
      /\ \A p \in tableChunks :
           /\ FromExtract(p)
           /\ Meta(p).chunk_index = 0
           /\ Meta(p).total_chunks = 1
           /\ Meta(p).is_partial = FALSE

\* C8: for every chunk built by extract_rag_chunks, is_partial is true if
\* and only if total_chunks > 1.
C8_PartialIffSeveral ==
  \A p \in 1..NChunks :
    FromExtract(p) => (Meta(p).is_partial <=> Meta(p).total_chunks > 1)

\* C9: every chunk built by extract_rag_chunks has 0 <= chunk_index <
\* total_chunks and sits in a run of total_chunks consecutive chunks of the
\* list, of the same content type, numbered 0, 1, ..., total_chunks - 1 in
\* that order, each carrying that total_chunks.
C9_IndexWithinSiblings ==
  \A p \in 1..NChunks :
    FromExtract(p) =>
      LET i == Meta(p).chunk_index
          t == Meta(p).total_chunks
          first == p - i
      IN  /\ 0 <= i /\ i < t
          /\ first >= 1 /\ first + t - 1 <= NChunks
          /\ \A j \in 0..(t - 1) :
               /\ FromExtract(first + j)
               /\ Meta(first + j).chunk_index = j
               /\ Meta(first + j).total_chunks = t
               /\ Meta(first + j).content_type = Meta(p).content_type

\* C9 witness: the last fragment of an item split in two or more, in a list
\* that also holds the chunk of another item.
C9_Witness ==
  \E p \in 1..NChunks :
    /\ FromExtract(p)
    /\ Meta(p).total_chunks >= 2
    /\ Meta(p).chunk_index = Meta(p).total_chunks - 1
    /\ NChunks > Meta(p).total_chunks

\* Python orders two ints; an int and a str are not ordered.
IdLess(a, b) == a.type = "int" /\ b.type = "int" /\ a.n < b.n

\* C10 as stated: the ids of the chunk list are strictly increasing in
\* emission order (hence pairwise distinct), table chunks appended by the
\* --include-tables path included.
C10_IdsIncreaseAsStated ==
  \A p, q \in 1..NChunks :
    p < q => IdLess(rag_chunks[p].chunk_id, rag_chunks[q].chunk_id)

\* C10 amended: the chunks built by extract_rag_chunks come first and carry
\* the ids 1, 2, 3, ... of one counter (so they are distinct and strictly
\* increasing in emission order); the table chunks appended after them carry
\* the strings table_1, table_2, ... of a separate counter, in order; all
\* ids of the list are pairwise distinct.
C10_IdsAmended ==
  /\ \A p \in 1..NChunks :
       IF FromExtract(p)
       THEN /\ p <= chunk_id
            /\ rag_chunks[p].chunk_id = IntId(p)
       ELSE /\ p > chunk_id
            /\ rag_chunks[p].chunk_id = TableIdStr(p - chunk_id)
  /\ mpc = "extract" => chunk_id = NChunks
  /\ \A p, q \in 1..NChunks :
       p # q => rag_chunks[p].chunk_id # rag_chunks[q].chunk_id

\* C10 witness: a saved list with the fragments of a split item followed by
\* an appended table chunk.
C10_Witness ==
  /\ mpc = "done"
  /\ include_tables
  /\ \E p \in 1..NChunks : FromExtract(p) /\ Meta(p).chunk_index >= 1
  /\ \E p \in 1..NChunks : ~FromExtract(p)

\* ------------------------------------------------ claims on the saved file
\* The metadata keys of a chunk of the exchange file, as extract_rag_chunks
\* writes them and prepare_chunk_data reads them.
ExchangeFields ==
  {"source", "content_type", "page", "chunk_index", "total_chunks", "is_partial"}

\* The file main has written.
SavedChunks == output[1].chunks

\* C11: every chunk of the saved exchange file has chunk_id, text and a
\* metadata record with the six fields source, content_type, page,
\* chunk_index, total_chunks and is_partial, and the file's total_chunks is
\* the number of its chunks, with or without --include-tables.
C11_ExchangeSchema ==
  output # <<>> =>
    /\ output[1].total_chunks = Len(SavedChunks)
    /\ \A p \in 1..Len(SavedChunks) :
         /\ {"chunk_id", "text", "metadata"} \subseteq DOMAIN SavedChunks[p]
         /\ ExchangeFields \subseteq DOMAIN SavedChunks[p].metadata

\* ------------------------------------------------- claims on the ingestion
\* prepare_chunk_data has returned its lists.
Prepared == ipc \in {"loop", "done", "empty"}

\* The positions of data that passed the type filters, and the k-th of them.
KeptPositions == {p \in 1..Len(data) : Kept(data[p], include_types, exclude_types)}
SourceOf(k) ==
  CHOOSE p \in KeptPositions : Cardinality({q \in KeptPositions : q < p}) = k - 1

\* C12: the metadata record prepared for a chunk has is_table = (content_type
\* is a table type), char_count = len(text), a page that is an int (0 when
\* the chunk's page is missing or null) and no null value, and every other
\* field as the chunk has it.
C12_PreparedMetadata ==
  Prepared =>
    /\ Len(metadatas) = Cardinality(KeptPositions)
    /\ \A k \in 1..Len(metadatas) :
         LET c == data[SourceOf(k)]
             m == metadatas[k]
         IN  /\ DOMAIN m = METADATA_FIELDS
             /\ m.is_table = (c.metadata.content_type \in {"table", "document_index"})
             /\ m.char_count = Len(c.text)
             /\ m.page.some
             /\ m.page.n = (IF "page" \in DOMAIN c.metadata /\ c.metadata.page.some
                            THEN c.metadata.page.n ELSE 0)
             /\ \A f \in {"source", "content_type", "chunk_index",
                          "total_chunks", "is_partial"} : m[f] = c.metadata[f]

\* C12 witness: a file with a chunk without page and a table-type chunk with
\* a null page has been prepared, both kept.
C12_Witness ==
  /\ Prepared
  /\ Len(metadatas) = 2
  /\ \E p \in 1..Len(data) : "page" \notin DOMAIN data[p].metadata
  /\ \E p \in 1..Len(data) :
       /\ "page" \in DOMAIN data[p].metadata
       /\ ~data[p].metadata.page.some
       /\ data[p].metadata.content_type = "document_index"

\* --------------------------------------------------- claims on the queries
\* A query has been handed to the vector index.
Sent == request # <<>>
Entered(entry) == Sent /\ call.entry = entry

\* The search methods of ChromaDBQuerier.
EntryPoints ==
  {"similarity_search", "search_by_content_type", "search_tables_only",
   "search_by_page_range"}

\* Stored metadata records to try a filter on: pages around the bounds, a
\* text and a table chunk.
SampleMetas ==
  {[source |-> SOURCE, content_type |-> ct, page |-> PageNo(pg),
    chunk_index |-> 0, total_chunks |-> 1, is_partial |-> FALSE,
    is_table |-> ct \in TABLE_CONTENT_TYPES, char_count |-> 1] :
     ct \in {"text", "table"}, pg \in {0, 1, 9, 10, 11, 19, 20, 21}}

\* C13: whatever search method is entered and whatever count is asked for,
\* the count handed to the vector index is at most MAX_RESULTS: a larger
\* request is sent with the ceiling, a smaller one as it is, none is
\* rejected.
C13_CountCapped ==
  Sent =>
    /\ call.entry \in EntryPoints
    /\ request[1].n_results <= MAX_RESULTS
    /\ request[1].n_results =
         (IF call.n_results > MAX_RESULTS THEN MAX_RESULTS ELSE call.n_results)
    /\ qerror = <<>>

\* C13 witness: search_by_page_range asked for more than the ceiling has
\* sent its query.
C13_Witness ==
  /\ Entered("search_by_page_range")
  /\ call.n_results > MAX_RESULTS
  /\ qpc = "searched"

\* C14: with at least one bound given, the filter search_by_page_range sends
\* is satisfied by exactly the records with page >= page_min (when page_min
\* is given) and page <= page_max (when page_max is given); a bound of 0 is
\* a given bound.
C14_PageRangeFilter ==
  Entered("search_by_page_range") /\ (call.page_min.some \/ call.page_max.some) =>
    /\ Len(request[1].where) = 1
    /\ \A meta \in SampleMetas :
         Matches(request[1].where[1], meta) <=>
           /\ call.page_min.some => meta.page.n >= call.page_min.n
           /\ call.page_max.some => meta.page.n <= call.page_max.n

\* C14 witness: a search with page_min missing and page_max = 0 has been
\* sent.
C14_Witness ==
  /\ Entered("search_by_page_range")
  /\ ~call.page_min.some
  /\ call.page_max = PageNo(0)

\* C15: search_by_page_range with both bounds missing hands the vector
\* index the request of an unfiltered similarity_search with the same count:
\* where is None.
C15_NoBoundsNoFilter ==
  Entered("search_by_page_range") /\ ~call.page_min.some /\ ~call.page_max.some =>
    /\ Len(request[1].where) = 0
    /\ request[1].n_results = similarity_search(call.n_results, None).n_results

\* C16: the command line with --page-min 10 --page-max 20 --content-type
\* table is answered with a filter that only matches records with
\* 10 <= page <= 20 and content_type = "table".
C16_RangeAndTypeCombined ==
  /\ qpc = "searched"
  /\ args.cli /\ ~args.tables_only
  /\ args.content_type = "table"
  /\ args.page_min = PageNo(10) /\ args.page_max = PageNo(20)
  => /\ Len(request[1].where) = 1
     /\ \A meta \in SampleMetas :
          Matches(request[1].where[1], meta) =>
            /\ 10 <= meta.page.n /\ meta.page.n <= 20
            /\ meta.content_type = "table"

\* The predicates search_by_page_range has to combine: one per bound given.
BoundPredicates ==
  (IF call.page_min.some THEN <<PageGte(call.page_min.n)>> ELSE <<>>)
    \o (IF call.page_max.some THEN <<PageLte(call.page_max.n)>> ELSE <<>>)

\* C17: where the program combines predicates (search_by_page_range, the
\* predicates of the bounds given), no predicate combines to no filter, a
\* single predicate to itself, and several to one flat $and of them.
C17_CompositionLaws ==
  Entered("search_by_page_range") =>
    LET ps == BoundPredicates
        w == request[1].where
    IN  /\ Len(ps) = 0 => w = None
        /\ Len(ps) = 1 => Len(w) = 1 /\ w[1] = ps[1]
        /\ Len(ps) > 1 =>
             /\ Len(w) = 1
             /\ DOMAIN w[1] = {"$and"}
             /\ w[1]["$and"] = ps
             /\ \A k \in 1..Len(ps) : "$and" \notin DOMAIN ps[k]

\* C18: no query is sent whose filter names a field outside
\* METADATA_FIELDS.
C18_UnknownFieldRejected ==
  Sent /\ Len(request[1].where) = 1 =>
    Fields(request[1].where[1]) \subseteq METADATA_FIELDS

\* C19: when the collection is missing as the querier is created, the one
\* lookup raises the ValueError that names the collection and
\* ingest_to_chromadb.py, the database is left as it is, and afterwards the
\* collection is still missing, no second lookup is made and no query is
\* sent.
C19_MissingCollectionFails ==
  /\ [][qpc = "create" /\ ConfigCollection \notin DOMAIN db =>
          /\ qpc' = "error"
          /\ qerror' = <<[type |-> "ValueError", collection |-> ConfigCollection,
                          run_first |-> "ingest_to_chromadb.py"]>>
          /\ db' = db
          /\ lookups' = 1]_vars
  /\ [](qpc = "error" =>
          /\ ConfigCollection \notin DOMAIN db
          /\ lookups = 1
          /\ request = <<>>
          /\ call.entry = "none")

\* C19 witness: main run with --collection my_docs against a database that
\* holds only the default collection has failed.
C19_Witness ==
  /\ qpc = "error"
  /\ args.cli
  /\ collection_name = "my_docs"
  /\ DOMAIN db = {COLLECTION_NAME}

\* ------------------------------------------------ claims on the batch loop
\* C20: whatever batches fail, the k-th collection.add is handed the k-th
\* slice of the prepared lists (each batch once, in order, a failed one not
\* again), the loop ends only when every batch has been handed over, and
\* the documents of every batch that succeeded are in the collection from
\* then on.
C20_BatchesOnceInOrder ==
  LET B == ConfigBatchSize
      n == Len(documents)
  IN  /\ \A k \in 1..Len(added) :
           /\ added[k].from = (k - 1) * B
           /\ added[k].to = Min(k * B, n)
      /\ ipc = "loop" => batch_start = Len(added) * B /\ batch_start < n
      /\ ipc = "done" => (Len(added) - 1) * B < n /\ n <= Len(added) * B
      /\ ipc \in {"loop", "done"} =>
           \A k \in 1..Len(added) :
             added[k].ok =>
               \A j \in (added[k].from + 1)..added[k].to :
                 \E e \in db[ConfigCollection] : e.id = ids[j]

\* C20 witness: a finished run of at least three batches in which the first
\* succeeded, the second failed and the third succeeded.
C20_Witness ==
  /\ ipc = "done"
  /\ Len(added) >= 3
  /\ added[1].ok /\ ~added[2].ok /\ added[3].ok
  /\ Cardinality(db[ConfigCollection]) >= 2

\* The passes of the batch loop whose collection.add raised.
FailedBatches == {k \in 1..Len(added) : ~added[k].ok}

\* C21: when an ingestion run has ended and some add call failed, what the
\* run reports at its end carries a count of skipped batches, and that count
\* is the number of batches whose add call failed.
C21_SkippedCountReported ==
  (report # <<>> /\ FailedBatches # {}) =>
     /\ "skipped_batches" \in DOMAIN report[1]
     /\ report[1].skipped_batches = Cardinality(FailedBatches)

\* C24: for every batch size >= 1 and every prepared chunk list, each batch
\* handed to collection.add holds between 1 and batch-size elements, starts
\* where the batch before it ended (the first at 0), and its i-th id,
\* document and metadata record are those of one chunk, the one at that
\* position of the prepared lists; when the loop has ended every prepared
\* chunk has been submitted in exactly one batch.
C24_BatchesPartition ==
  ConfigBatchSize >= 1 =>
    /\ \A k \in 1..Len(added) :
         LET b == added[k]
             size == Len(b.batch_ids)
         IN  /\ size \in 1..ConfigBatchSize
             /\ Len(b.batch_documents) = size
             /\ Len(b.batch_metadatas) = size
             /\ b.from = (IF k = 1 THEN 0
                          ELSE added[k - 1].from + Len(added[k - 1].batch_ids))
             /\ \A i \in 1..size :
                  LET c == data[SourceOf(b.from + i)]
                  IN  /\ b.batch_ids[i] = DocId(c.chunk_id)
                      /\ b.batch_documents[i] = c.text
                      /\ b.batch_metadatas[i] = PreparedMeta(c)
    /\ ipc = "done" =>
         \A j \in 0..(Len(ids) - 1) :
           Cardinality({k \in 1..Len(added) :
                          /\ added[k].from <= j
                          /\ j < added[k].from + Len(added[k].batch_ids)}) = 1

\* C24 witness: a run over three or more chunks in batches of two has ended,
\* its last batch shorter than the batch size.
C24_Witness ==
  /\ ipc = "done"
  /\ ConfigBatchSize = 2
  /\ Len(added) >= 2
  /\ Len(added[Len(added)].batch_ids) = 1

C28_NothingAddedNothingLost ==
  [][LET r == prepare_chunk_data(data, include_types, exclude_types)
         AddsNothing ==
           data # <<>> /\ (r.status = "KeyError" \/ r.documents = <<>>)
     IN  (AddsNothing /\ ConfigCollection \in DOMAIN db) =>
           /\ ConfigCollection \in DOMAIN db'
           /\ db[ConfigCollection] \subseteq db'[ConfigCollection]]_vars

\* C29: in a run without reset, no id about to be submitted is the id of an
\* entry the collection holds from another source document, and when the
\* run has ended without a failed batch every prepared chunk is in the
\* collection with its own document and metadata.
C29_NoIdCollision ==
  ~reset =>
    /\ ipc = "loop" =>
         \A j \in (batch_start + 1)..Len(ids) :
           \A e \in db[ConfigCollection] :
             e.metadata.source # metadatas[j].source => e.id # ids[j]
    /\ (ipc = "done" /\ FailedBatches = {}) =>
         \A j \in 1..Len(ids) :
           [id |-> ids[j], document |-> documents[j], metadata |-> metadatas[j]]
             \in db[ConfigCollection]

\* The sentence terminators among the last LOOKBACK characters of the window
\* [cursor, cursor + chunk_size), as 0-based indices.
WindowHits(cursor) ==
  {i \in Max(cursor, cursor + chunk_size - LOOKBACK)..(cursor + chunk_size - 1) :
     i + 1 \in DOMAIN text /\ text[i + 1] \in SentenceEnd}

\* C25: with a valid configuration, in every iteration where cursor +
\* chunk_size lies before the end of the text the boundary is just after the
\* last sentence terminator among the last LOOKBACK characters of the window
\* [cursor, cursor + chunk_size), and is cursor + chunk_size when there is
\* none.
C25_LookbackSnap ==
  ValidConfig =>
    \A k \in 1..Len(cuts) :
      LET cursor == cuts[k][1]
          hits == WindowHits(cursor)
      IN  (cursor >= 0 /\ cursor + chunk_size < Len(text)) =>
            cuts[k][2] = (IF hits # {}
                          THEN (CHOOSE i \in hits : \A j \in hits : j <= i) + 1
                          ELSE cursor + chunk_size)

\* C27: with a valid configuration, no chunk follows a chunk whose span
\* reaches the end of the text, and every chunk's span ends strictly after
\* the span of the chunk before it.
C27_NoChunkAfterEnd ==
  ValidConfig =>
    \A k \in 1..(Len(cuts) - 1) :
      /\ CutTo(k) < Len(text)
      /\ CutTo(k) < CutTo(k + 1)

\* --------------------------------------------- claims on the multi-query pool
\* The contexts of the results of the first k searches, in order, nothing
\* removed.
RECURSIVE PooledUpTo(_)
PooledUpTo(k) ==
  IF k = 0 THEN <<>>
  ELSE PooledUpTo(k - 1) \o
         [i \in 1..Len(searches[k].results) |->
            [text |-> searches[k].results[i].document,
             page |-> searches[k].results[i].metadata.page,
             type |-> searches[k].results[i].metadata.content_type]]

\* C22: the example issues one search per sub-query in the given order, the
\* pool is the concatenation of the results with nothing removed (its length
\* the sum of the per-query counts), and every pooled result records the
\* sub-query that produced it.
C22_PoolKeepsSubQuery ==
  sub_no >= 1 =>
    LET pool == PooledUpTo(Len(searches))
        producer(p) == CHOOSE k \in 1..Len(searches) :
                         Len(PooledUpTo(k - 1)) < p /\ p <= Len(PooledUpTo(k))
    IN  /\ Len(searches) = sub_no - 1
        /\ \A k \in 1..Len(searches) :
             /\ searches[k].request.query_texts = <<Queries[k]>>
             /\ searches[k].request.n_results = SubQueryResults
        /\ Len(all_contexts) = Len(pool)
        /\ \A p \in 1..Len(all_contexts) :
             /\ all_contexts[p].text = pool[p].text
             /\ all_contexts[p].page = pool[p].page
             /\ all_contexts[p].type = pool[p].type
        /\ \A p \in 1..Len(all_contexts) :
             /\ "query" \in DOMAIN all_contexts[p]
             /\ all_contexts[p].query = Queries[producer(p)]

\* --------------------------------------------- claims on the configuration
\* The object was created without any override.
Plain(c) ==
  c.given.collection_name = "" /\ c.given.persist_directory = "" /\ c.given.batch_size = 0

\* C30: whatever overrides the objects created so far were given, the class
\* attributes of ChromaDBConfig are the defaults, every object's own
\* attributes are exactly the overrides it was given, and every object
\* created without overrides works with the default collection name,
\* directory and batch size.
C30_OverridesStayLocal ==
  /\ ChromaDBConfig = ClassDefaults
  /\ \A k \in 1..Len(configs) :
       LET c == configs[k]
       IN  /\ \A f \in DOMAIN c.instance :
                \/ f = "COLLECTION_NAME" /\ c.instance[f] = c.given.collection_name
                \/ f = "PERSIST_DIRECTORY" /\ c.instance[f] = c.given.persist_directory
                \/ f = "BATCH_SIZE" /\ c.instance[f] = c.given.batch_size
           /\ Plain(c) =>
                /\ c.instance = <<>>
                /\ c.collection = COLLECTION_NAME
                /\ c.directory = PERSIST_DIRECTORY
                /\ c.batch = BATCH_SIZE

\* C30 witness: a querier created with both overrides, then an ingestion
\* run created without any.
C30_Witness ==
  /\ Len(configs) = 2
  /\ configs[1].kind = "querier"
  /\ configs[1].instance = [COLLECTION_NAME |-> "my_docs", PERSIST_DIRECTORY |-> "./other"]
  /\ configs[2].kind = "ingest"
  /\ Plain(configs[2])

\* ------------------------------------------------- claims on repeated runs
\* C23: a second run of the chunking pipeline on the same content items with
\* the same chunk_size and overlap writes the chunk list the first run
\* wrote: as many chunks, with the same id, text and metadata at every
\* position.
C23_SameChunksOnRerun ==
  (first_run # <<>> /\ mpc = "done") =>
    /\ Len(output[1].chunks) = Len(first_run[1].chunks)
    /\ \A k \in 1..Len(output[1].chunks) :
         /\ output[1].chunks[k].chunk_id = first_run[1].chunks[k].chunk_id
         /\ output[1].chunks[k].text = first_run[1].chunks[k].text
         /\ output[1].chunks[k].metadata = first_run[1].chunks[k].metadata

\* C23 witness: the second run has written its file, of at least three
\* chunks, one of them a fragment of a split item.
C23_Witness ==
  /\ first_run # <<>>
  /\ mpc = "done"
  /\ Len(output[1].chunks) >= 3
  /\ \E k \in 1..Len(output[1].chunks) : output[1].chunks[k].metadata.is_partial

=============================================================================
